---------------------------- MODULE Spec2Model ----------------------------
(***************************************************************************)
(* A model of the reactive graph engine of src/unnamed/part_000            *)
(* (observables: observable, computed, effect, root, dispose, compute,     *)
(* notify, handleError) driven by small user programs.                     *)
(*                                                                         *)
(* The engine is single threaded and every API call runs to completion, so *)
(* each API call is one action.  The call itself is evaluated by recursive *)
(* operators that thread a record `s' holding the whole heap, one operator *)
(* per function of the source and with the source's name.  JavaScript      *)
(* exceptions are the field s.exc ("none" while running normally); every   *)
(* operator passes a pending exception on, `compute' runs its finally      *)
(* block on it and `recompute' catches it, as the source does.             *)
(*                                                                         *)
(* JavaScript Sets keep insertion order, so a Set is a sequence without    *)
(* repetitions.  A field that the source holds as `null or a Set' is the   *)
(* empty sequence when it is null: the source only ever tests such a field *)
(* for truthiness before iterating it or for `?.size', and null and the    *)
(* empty Set take the same branch in each of these places.  The exception  *)
(* is the error handler Set of a context, where lookup() tells an empty    *)
(* Set from undefined: errDef holds that difference.                       *)
(***************************************************************************)
EXTENDS Integers, Sequences, FiniteSets, TLC

\* Bounds of the model.
MaxNodes == 7      \* objects (observables, computeds, roots) ever created
MaxVal == 1        \* sources are written with the values 0..MaxVal
MaxLog == 14       \* events of one API call (cuts runaway recursion)

\* `null' (a node reference that is null) and `undefined' (a value).
Null == 0
UNDEF == -1

Nodes == 1..MaxNodes
Vals == 0..MaxVal

VARIABLES
  sc, pc,                     \* the user program that is running, its position
  kind, tmpl,                 \* per object: what it is, the closure it holds
  value, init,                \* currentValue, init of the closures
  SCOPE, DIRTY, DISPOSED, CHILDREN, OBSERVERS, DISPOSAL,
  errDef, errH,               \* CONTEXT[ERROR]: is it defined, its handlers
  currentScope, currentObserver, prevScope, prevObserver,
  computeStack,
  queue,                      \* the scheduler's pending set
  next,                       \* the next object to be allocated
  exc, ret,                   \* how the last API call ended, what it returned
  lastOp,                     \* the last API call
  log,                        \* history: the events of the last API call
  restored,                   \* history: every compute of the last call put both slots back
  deps,                       \* history: what each derivation read in its latest run
  owner,                      \* history: the tracked execution that created each object
  stale,                      \* history: derivations owing a re-run to a write
  fresh,                      \* history: derivations run since the last write below them
  heldAt,                     \* history: the value each object held when it was disposed
  madeIn,                     \* history: "track", "peek" or "untrack", where each object was created
  midRun,                     \* history: objects disposed while their own body was running
  ran,                        \* history: derivations whose body was started at least once
  ctx,                        \* CONTEXT[key], for the one key the programs use
  handles                     \* the functions onDispose returned that a program kept: scope and callback

vars == <<sc, pc, kind, tmpl, value, init, SCOPE, DIRTY, DISPOSED, CHILDREN,
          OBSERVERS, DISPOSAL, errDef, errH, currentScope, currentObserver,
          prevScope, prevObserver, computeStack, queue, next, exc, ret,
          lastOp, log, restored, deps, owner, stale, fresh, heldAt, madeIn, midRun,
          ran,
          ctx,
          handles>>

-----------------------------------------------------------------------------
(* JavaScript Set, as a sequence without repetitions.                      *)

Range(q) == {q[i] : i \in 1..Len(q)}

SetAdd(q, x) == IF x \in Range(q) THEN q ELSE Append(q, x)

RECURSIVE SetDel(_, _)
SetDel(q, x) ==
  IF q = <<>> THEN <<>>
  ELSE IF Head(q) = x THEN SetDel(Tail(q), x)
       ELSE <<Head(q)>> \o SetDel(Tail(q), x)

notEqual(a, b) == a # b

-----------------------------------------------------------------------------
(* User programs.  A body is a sequence of statements; the value a body    *)
(* returns is the sum of the values its reads returned.                    *)

I(op, a, b, c) == [op |-> op, a |-> a, b |-> b, c |-> c]

R(n) == I("R", n, 0, 0)             \* n()
RIf(c, t, e) == I("RIf", c, t, e)   \* c() ? t() : e()
W(n, v) == I("W", n, v, 0)          \* n.set(v)
New(t) == I("New", t, 0, 0)         \* observable(..) / computed(..) / effect(..) / root(..)
OnD(cb) == I("OnD", cb, 0, 0)       \* onDispose(cb)
Disp(n) == I("Disp", n, 0, 0)       \* dispose(n); n = Null: the handle a root body is given
ThrowIf(n) == I("ThrowIf", n, 0, 0) \* if (n()) throw Error()
Peek(body) == I("Peek", body, 0, 0) \* peek(() => { body })
Untrack(body) == I("Untrack", body, 0, 0) \* untrack(() => { body })
Call(n) == I("Call", n, 0, 0)       \* n(), n a function returned by scope(..)
If(n, body) == I("If", n, body, 0)  \* if (n()) { body }
Throw == I("Throw", 0, 0, 0)        \* throw Error()
OnErr(h) == I("OnErr", h, 0, 0)     \* onError(h)
SetCtx(v) == I("SetCtx", v, 0, 0)   \* setContext(key, v)
GetCtx == I("GetCtx", 0, 0, 0)      \* getContext(key)
Try(body) == I("Try", body, 0, 0)   \* try { body } catch {}
OnDKeep(cb) == I("OnDKeep", cb, 0, 0)  \* early = onDispose(cb), early kept by the program

\* The error handlers of the programs: handler 1 returns, handler 2 throws.
HandlerThrows(h) == h = 2

T(k, body, cleanup, v0) == [kind |-> k, body |-> body, cleanup |-> cleanup, v0 |-> v0]

\* computed(() => { body }, { fallback: fb })
TF(body, fb) == [kind |-> "computed", body |-> body, cleanup |-> 0, v0 |-> 0, fb |-> fb]

\* options?.fallback of a closure.
fallback(t) == IF "fb" \in DOMAIN t THEN t.fb ELSE UNDEF

\* The closures the programs create.  Objects are numbered in creation order,
\* so a body names the objects its program created before it.
Tmpl == <<
  T("observable", <<>>, 0, 0),                  \* 1  observable(0)
  T("computed", <<R(1)>>, 0, 0),                \* 2  computed(() => $1())
  T("computed", <<R(3)>>, 0, 0),                \* 3  computed(() => $3())
  T("effect", <<R(1), R(4), R(2)>>, 0, 0),      \* 4  effect(() => { $1(); $4(); $2() })
  T("computed", <<RIf(1, 2, 3)>>, 0, 0),        \* 5  computed(() => $1() ? $2() : $3())
  T("computed", <<R(2)>>, 0, 0),                \* 6  computed(() => $2())
  T("effect", <<R(3), New(8)>>, 0, 0),          \* 7  effect(() => { $3(); effect(..8..) })
  T("effect", <<R(1)>>, 1, 0),                  \* 8  effect(() => { $1(); return cb1 })
  T("root", <<New(1), New(6), R(3), Disp(Null)>>, 0, 0),
                                                \* 9  root(d => { $2 = observable(0);
                                                \*      $3 = computed(() => $2()); $3(); d() })
  T("computed", <<ThrowIf(1)>>, 0, 0),          \* 10 computed(() => { if ($1()) throw .. })
  T("effect", <<R(1), New(12), OnD(2)>>, 0, 0), \* 11 effect(() => { $1(); effect(..12..);
                                                \*      onDispose(cb2) })
  T("effect", <<R(2)>>, 1, 0),                  \* 12 effect(() => { $2(); return cb1 })
  T("computed", <<R(1), Disp(Null)>>, 0, 0),    \* 13 computed(() => { v = $1(); dispose(self);
                                                \*      return v })
  T("effect", <<Peek(<<R(3), New(1)>>), Untrack(<<R(1), New(1)>>)>>, 0, 0),
                                                \* 14 effect(() => {
                                                \*      peek(() => { $3(); observable(0) });
                                                \*      untrack(() => { $1(); observable(0) }) })
  T("effect", <<R(3)>>, 1, 0),                  \* 15 effect(() => { $3(); return cb1 })
  T("scope", <<>>, 0, 0),                       \* 16 scope(() => {})
  T("computed", <<Call(1), If(2, <<W(2, 0), R(3)>>)>>, 0, 0),
                                                \* 17 computed(() => { $1();
                                                \*      if ($2()) { $2.set(0); $3() } })
  T("root", <<OnErr(1), New(19), R(2)>>, 0, 0), \* 18 root(() => { onError(h1);
                                                \*      $2 = computed(..19..); $2() })
  T("computed", <<R(2)>>, 0, 0),                \* 19 computed(() => $2()), as $2
  T("root", <<OnErr(2), New(21), R(2)>>, 0, 0), \* 20 root(() => { onError(h2);
                                                \*      $2 = computed(..21..); $2() })
  T("computed", <<Throw>>, 0, 0),               \* 21 computed(() => { throw .. })
  T("root", <<OnErr(1), New(1), New(23)>>, 0, 0),
                                                \* 22 root(() => { onError(h1);
                                                \*      $2 = observable(0); $3 = computed(..23..) })
  TF(<<ThrowIf(2)>>, 5),                        \* 23 computed(() => { if ($2()) throw .. },
                                                \*      { fallback: 5 })
  T("effect", <<SetCtx(1), R(3), GetCtx>>, 0, 0),
                                                \* 24 effect(() => { setContext(key, 1); $3();
                                                \*      getContext(key) })
  T("effect", <<R(1), OnDKeep(2)>>, 0, 0),      \* 25 effect(() => { $1();
                                                \*      early = onDispose(cb2) })
  T("computed", <<R(1), W(1, 1)>>, 0, 0),
                                                \* 26 computed(() => { v = $1(); $1.set(1);
                                                \*      return v })
  T("computed", <<RIf(1, 2, 2)>>, 0, 0),
                                                \* 27 computed(() => $1() ? $2() : $2())
  T("effect", <<R(3)>>, 0, 0),
                                                \* 28 effect(() => { $3() })
  T("effect", <<R(2)>>, 0, 0),
                                                \* 29 effect(() => { $2() })
  T("effect", <<Try(<<Peek(<<Throw>>)>>), R(1), Try(<<Untrack(<<Throw>>)>>), New(1)>>, 0, 0)
                                                \* 30 effect(() => { try { peek(() => { throw .. }) } catch {}
                                                \*      $1(); try { untrack(() => { throw .. }) } catch {}
                                                \*      observable(0) })
>>

\* The programs: the statements a test runs at top level before it starts
\* reading, writing, disposing and ticking.
Main == <<
  <<New(1), New(1), New(2), New(3), New(4)>>,  \* 1: a, b, c = a, d = c, e = effect(a, d, b)
  <<New(1), New(1), New(1), New(5)>>,          \* 2: flag, a, b, d = flag ? a : b
  <<New(1), New(2), New(6), New(7)>>,          \* 3: a, c = a, d = c, x = effect(d, child(a))
  <<New(1), New(1), New(11)>>,                 \* 4: a, b, p = effect(a, child(b))
  <<New(9)>>,                                  \* 5: root(a, b = a, b(), dispose)
  <<New(1), New(10), New(6)>>,                 \* 6: a, t = throws if a, u = t
  <<New(1), New(13)>>,                         \* 7: a, s = computed that disposes itself
  <<New(1), New(2), New(6), New(14)>>,         \* 8: a, c = a, d = c, effect(peek(d, new), untrack(a, new))
  <<New(1), New(2), New(6), New(15)>>,         \* 9: a, c = a, d = c, g = effect(d) with a cleanup
  <<New(16), New(1), New(17)>>,                \* 10: f = scope, flag, D = computed(f(), D() once)
  <<New(18)>>,                                 \* 11: root(onError(h1), m = computed(m()), m())
  <<New(20)>>,                                 \* 12: root(onError(h2), t = computed(throw), t())
  <<New(22)>>,                                 \* 13: root(onError(h1), a, t = throws if a, or 5)
  <<New(1), New(2), New(6), New(24)>>,         \* 14: a, c = a, d = c, effect(setContext, d, getContext)
  <<New(1), New(25)>>,                         \* 15: a, p = effect(a, early = onDispose(cb2))
  <<New(1), New(26)>>,                         \* 16: a, w = computed(a, a.set(1))
  <<New(1), New(1), New(27), New(28)>>,        \* 17: flag, b, d = flag ? b : b, e = effect(d)
  <<New(1), New(2), New(29)>>,                 \* 18: a, b = a, e = effect(b), stopped deep
  <<New(1), New(30)>>                          \* 19: a, e = effect(peek throws, a, untrack throws, new)
>>

\* What each program goes on to read and to dispose at top level.
Readable == << {3, 4}, {4}, {3}, {1}, {3}, {2, 3}, {2}, {3}, {3}, {3}, {2}, {2}, {3}, {3}, {1}, {2}, {3}, {2}, {1} >>
Disposable == << {5}, {2, 4}, {4}, {3}, {2}, {3}, {1}, {4}, {4}, {3}, {1}, {1}, {1}, {4}, {2}, {2}, {4}, {}, {2} >>

NSc == Len(Main)

\* What a program disposes with dispose(n, true) or stop(true).
DeepDisposable == [i \in 1..NSc |-> IF i = 18 THEN {2, 3} ELSE {}]

-----------------------------------------------------------------------------
(* The heap as one record, and the history the claims are stated over.     *)

S == [kind |-> kind, tmpl |-> tmpl, value |-> value, init |-> init,
      SCOPE |-> SCOPE, DIRTY |-> DIRTY, DISPOSED |-> DISPOSED,
      CHILDREN |-> CHILDREN, OBSERVERS |-> OBSERVERS, DISPOSAL |-> DISPOSAL,
      errDef |-> errDef, errH |-> errH,
      currentScope |-> currentScope, currentObserver |-> currentObserver,
      prevScope |-> prevScope, prevObserver |-> prevObserver,
      computeStack |-> computeStack, queue |-> queue, next |-> next,
      exc |-> "none", ret |-> UNDEF,
      trueScope |-> Null, trueObserver |-> Null,
      active |-> <<>>,
      log |-> <<>>, restored |-> TRUE, deps |-> deps, owner |-> owner,
      stale |-> stale, fresh |-> fresh, heldAt |-> heldAt, midRun |-> midRun,
      mode |-> "track", madeIn |-> madeIn,
      ran |-> ran,
      ctx |-> ctx,
      handles |-> handles]

Ev(e, n) == [e |-> e, n |-> n]

IsDerivation(s, n) == s.kind[n] = "computed"

\* The objects whose latest run read n, directly or through derivations.
RECURSIVE Above(_, _, _)
Above(s, ns, k) ==
  LET up == ns \cup {d \in Nodes : IsDerivation(s, d) /\ s.deps[d] \cap ns # {}}
  IN  IF k = 0 \/ up = ns THEN ns ELSE Above(s, up, k - 1)

-----------------------------------------------------------------------------
(* The scheduler (./scheduler is not among the sources).                   *)

enqueue(s, n) == [s EXCEPT !.queue = SetAdd(@, n)]

-----------------------------------------------------------------------------
(* The engine.                                                             *)

adopt(s, node) == [s EXCEPT !.CHILDREN[s.currentScope] = SetAdd(@, node)]

\* An iteration that loses the observer following one it removes.
RECURSIVE notifyLoopSkip(_, _, _)
notifyLoopSkip(s, src, obs) ==
  IF obs = <<>> THEN s
  ELSE IF s.DISPOSED[Head(obs)]
       THEN notifyLoopSkip([s EXCEPT !.OBSERVERS[src] = SetDel(@, Head(obs))], src,
                           IF Len(obs) > 1 THEN Tail(Tail(obs)) ELSE <<>>)
       ELSE notifyLoopSkip(enqueue([s EXCEPT !.DIRTY[Head(obs)] = TRUE,
                                             !.log = Append(@, Ev("mark", Head(obs)))],
                                   Head(obs)),
                           src, Tail(obs))

\* for (const observer of observers): a disposed observer is deleted from
\* the Set, any other is marked and enqueued.
RECURSIVE notifyLoop(_, _, _)
notifyLoop(s, src, obs) ==
  IF obs = <<>> THEN s
  ELSE IF s.DISPOSED[Head(obs)]
       THEN notifyLoop([s EXCEPT !.OBSERVERS[src] = SetDel(@, Head(obs))], src, Tail(obs))
       ELSE notifyLoop(enqueue([s EXCEPT !.DIRTY[Head(obs)] = TRUE,
                                         !.log = Append(@, Ev("mark", Head(obs)))],
                               Head(obs)),
                       src, Tail(obs))

\* A notification that marks every derivation, observer or not.
notifyEvery(s, src) ==
  [notifyLoop(s, src, s.OBSERVERS[src]) EXCEPT
     !.DIRTY = [n \in Nodes |-> IF s.kind[n] = "computed" THEN TRUE ELSE @[n]]]

\* notify(node[OBSERVERS]): the Set is the one node `src' holds.
notify(s, src) == notifyLoop(s, src, s.OBSERVERS[src])

\* if (node[OBSERVERS]?.size) notify(node[OBSERVERS])
notifyObservers(s, n) ==
  IF s.OBSERVERS[n] # <<>> THEN notify(s, n) ELSE s

\* The read of any node registers the current observer.
track(s, n) ==
  LET s1 == IF s.currentObserver # Null
            THEN [s EXCEPT !.OBSERVERS[n] = SetAdd(@, s.currentObserver),
                           !.log = IF s.mode = "track" THEN @ ELSE Append(@, Ev("peeklink", n))]
            ELSE s
  IN  IF s.trueObserver # Null
      THEN [s1 EXCEPT !.deps[s.trueObserver] = @ \cup {n}]
      ELSE s1

observableRead(s, n) == [track(s, n) EXCEPT !.ret = s.value[n]]

\* observable.set without the test of the disposed flag.
observableSetAnyway(s, n, v) ==
  IF notEqual(s.value[n], v)
  THEN notifyObservers([s EXCEPT !.value[n] = v,
                                 !.log = Append(@, Ev("write", n))], n)
  ELSE s

observableSet(s, n, v) ==
  IF ~s.DISPOSED[n] /\ notEqual(s.value[n], v)
  THEN notifyObservers(
         [s EXCEPT !.value[n] = v,
                   !.log = Append(@, Ev("write", n)),
                   !.stale = @ \cup {d \in Nodes : IsDerivation(s, d) /\ ~s.DISPOSED[d]
                                                    /\ n \in s.deps[d]},
                   !.fresh = @ \ Above(s, {n}, MaxNodes)],
         n)
  ELSE s

onDispose(s, cb) ==
  IF cb = 0 \/ s.currentScope = Null THEN s
  ELSE [s EXCEPT !.DISPOSAL[s.currentScope] = SetAdd(@, cb)]

\* for (const dispose of node[DISPOSAL]) dispose()
runDisposal(s, cbs) ==
  [s EXCEPT !.log = @ \o [i \in 1..Len(cbs) |-> Ev("cb", cbs[i])]]

\* What onDispose returns: the closure over scope and dispose, or dispose
\* itself (scope Null here) when nothing was registered.
Handle(s, cb) == [scope |-> s.currentScope, cb |-> cb]

onDisposeKeep(s, cb) ==
  [onDispose(s, cb) EXCEPT !.handles = @ \cup {Handle(s, cb)}]

\* A returned function that calls dispose and leaves the Set alone.
invokeHandleKeep(s, h) == runDisposal(s, <<h.cb>>)

\* () => { dispose(); scope[DISPOSAL]?.delete(dispose) }.  History: a
\* `deleted' event when delete found the callback in the Set.
invokeHandle(s, h) ==
  IF h.scope = Null THEN runDisposal(s, <<h.cb>>)
  ELSE [runDisposal(s, <<h.cb>>) EXCEPT
          !.DISPOSAL[h.scope] = SetDel(@, h.cb),
          !.log = IF h.cb \in Range(s.DISPOSAL[h.scope])
                  THEN Append(@, Ev("deleted", h.scope)) ELSE @]

RECURSIVE dispose(_, _), disposeEach(_, _)
disposeEach(s, ch) ==
  IF ch = <<>> THEN s ELSE disposeEach(dispose(s, Head(ch)), Tail(ch))

\* if (fn[CHILDREN]) { fn[CHILDREN] = null; for (child of children) dispose(child) }
disposeChildren(s, fn) ==
  IF s.CHILDREN[fn] # <<>>
  THEN disposeEach([s EXCEPT !.CHILDREN[fn] = <<>>], s.CHILDREN[fn])
  ELSE s

\* if (fn[DISPOSAL]) { for (dispose of fn[DISPOSAL]) dispose(); cleared }
clearDisposal(s, fn) ==
  IF s.DISPOSAL[fn] # <<>>
  THEN [runDisposal(s, s.DISPOSAL[fn]) EXCEPT !.DISPOSAL[fn] = <<>>]
  ELSE s

\* if (fn[SCOPE]) { fn[SCOPE][CHILDREN]?.delete(fn); fn[SCOPE] = null }
leaveScope(s, fn) ==
  IF s.SCOPE[fn] # Null
  THEN [s EXCEPT !.CHILDREN[s.SCOPE[fn]] = SetDel(@, fn), !.SCOPE[fn] = Null]
  ELSE s

\* fn[OBSERVERS] = null; fn[CONTEXT] = null; fn[DISPOSED] = true
markDisposed(s, fn) ==
  [s EXCEPT !.OBSERVERS[fn] = <<>>, !.errDef[fn] = FALSE, !.errH[fn] = <<>>,
            !.ctx[fn] = UNDEF,
            !.DISPOSED[fn] = TRUE,
            !.log = Append(@, Ev("disposed", fn)),
            !.stale = @ \ {fn}, !.fresh = @ \ {fn},
            !.heldAt[fn] = IF s.DISPOSED[fn] THEN @ ELSE s.value[fn],
            !.midRun = IF ~s.DISPOSED[fn] /\ fn \in Range(s.active) THEN @ \cup {fn} ELSE @]

dispose(s, fn) ==
  markDisposed(leaveScope(clearDisposal(disposeChildren(s, fn), fn), fn), fn)

\* lookup(node, ERROR): the nearest scope whose context defines handlers.
RECURSIVE lookup(_, _)
lookup(s, node) ==
  IF node = Null THEN Null
  ELSE IF s.errDef[node] THEN node
       ELSE lookup(s, s.SCOPE[node])

\* lookup(node, key): the value the nearest scope defines for the key.
RECURSIVE lookupKey(_, _)
lookupKey(s, node) ==
  IF node = Null THEN UNDEF
  ELSE IF s.ctx[node] # UNDEF THEN s.ctx[node]
       ELSE lookupKey(s, s.SCOPE[node])

\* getContext(key).  History: a `ctxmiss' event when the result is not what
\* the search from the scope whose body is executing gives.
getContext(s) ==
  [s EXCEPT !.ret = lookupKey(s, s.currentScope),
            !.log = IF lookupKey(s, s.currentScope) # lookupKey(s, s.trueScope)
                    THEN Append(@, Ev("ctxmiss", s.trueScope)) ELSE @]

\* setContext(key, value)
setContext(s, v) ==
  IF s.currentScope = Null THEN s
  ELSE [s EXCEPT !.ctx[s.currentScope] = v]

\* onError(handler): the handler joins the Set the current scope holds.
onError(s, h) ==
  IF s.currentScope = Null THEN s
  ELSE [s EXCEPT !.errDef[s.currentScope] = TRUE,
                 !.errH[s.currentScope] = SetAdd(@, h)]

\* for (const handler of handlers) handler(coercedError): the loop ends at
\* the first handler that throws.  An invocation is logged with the scope
\* that holds the handler and the handler, apart for a cycle error.
Invoked(error, at, h) ==
  Ev(IF error = "cycle" THEN "cyclehandler" ELSE "handler", 10 * at + h)

RECURSIVE runHandlers(_, _, _, _)
runHandlers(s, at, hs, error) ==
  IF hs = <<>> THEN s
  ELSE IF HandlerThrows(Head(hs))
       THEN [s EXCEPT !.log = Append(@, Invoked(error, at, Head(hs))), !.exc = "error"]
       ELSE runHandlers([s EXCEPT !.log = Append(@, Invoked(error, at, Head(hs)))],
                        at, Tail(hs), error)

RECURSIVE handleError(_, _, _)
\* catch (error) { handleError(node[SCOPE], error) }
handleErrorCatch(s, node) ==
  IF s.exc = "none" THEN s
  ELSE handleError([s EXCEPT !.exc = "none"], s.SCOPE[node], s.exc)

\* const handlers = lookup(node, ERROR); if (!handlers) throw error; try { .. }
handleErrorAt(s, node, error, at) ==
  IF at = Null THEN [s EXCEPT !.exc = error]
  ELSE handleErrorCatch(runHandlers(s, at, s.errH[at], error), node)

handleError(s, node, error) == handleErrorAt(s, node, error, lookup(s, node))

-----------------------------------------------------------------------------
(* Creation, tracked execution and the reads of derivations: these call    *)
(* user code, which calls them.                                            *)

RECURSIVE ExecSeq(_, _, _, _), Exec(_, _, _), compute(_, _, _, _), recompute(_, _),
          computedRead(_, _), create(_, _), flushLoop(_), scoped(_, _)

\* effectResult && currentScope && onDispose(effectResult)
effectCleanup(s, tp) ==
  IF s.exc # "none" \/ tp.kind # "effect" THEN s
  ELSE [(IF tp.cleanup # 0 /\ s.currentScope # Null
         THEN onDispose(s, tp.cleanup) ELSE s) EXCEPT !.ret = UNDEF]

\* The function a computed, effect or root closure runs.
call(s, me) == effectCleanup(ExecSeq(s, Tmpl[s.tmpl[me]].body, 0, me), Tmpl[s.tmpl[me]])

\* compute(), up to the try.
computeEnter(s, scope, me, observer) ==
  [s EXCEPT !.prevScope = s.currentScope,
            !.prevObserver = s.currentObserver,
            !.currentScope = scope,
            !.currentObserver = observer,
            !.computeStack = IF scope # Null THEN Append(@, scope) ELSE @,
            !.trueScope = scope,
            !.trueObserver = IF s.kind[me] = "scope" THEN s.trueObserver ELSE observer,
            !.mode = IF s.kind[me] = "scope" THEN s.mode ELSE "track",
            !.active = Append(@, me)]

\* if (__DEV__) computeStack.pop()
pop(stack) == IF stack = <<>> THEN stack ELSE SubSeq(stack, 1, Len(stack) - 1)

\* compute(), the finally block: s is the heap at entry, r the heap the body left.
\* History: an `unbalanced' event when the stack is not left as it was found.
computeFinally(s, r) ==
  IF r.exc = "overflow" THEN r
  ELSE [r EXCEPT !.currentScope = r.prevScope,
                 !.currentObserver = r.prevObserver,
                 !.prevScope = Null,
                 !.prevObserver = Null,
                 !.computeStack = pop(@),
                 !.log = IF pop(r.computeStack) # s.computeStack
                         THEN Append(@, Ev("unbalanced", Len(s.computeStack))) ELSE @,
                 !.trueScope = s.trueScope,
                 !.trueObserver = s.trueObserver,
                 !.active = s.active,
                 !.mode = s.mode,
                 !.restored = @ /\ r.prevScope = s.currentScope
                                /\ r.prevObserver = s.currentObserver]

compute(s, scope, me, observer) ==
  computeFinally(s, call(computeEnter(s, scope, me, observer), me))

\* for (const child of children) dispose(child); children.clear()
clearChildren(s, n) ==
  IF s.CHILDREN[n] # <<>>
  THEN [disposeEach(s, s.CHILDREN[n]) EXCEPT !.CHILDREN[n] = <<>>]
  ELSE s

\* ($computed[CONTEXT][ERROR]).clear()
clearHandlers(s, n) ==
  IF s.errH[n] # <<>> THEN [s EXCEPT !.errH[n] = <<>>] ELSE s

\* History of the run that starts: its reads are collected afresh.
beginRun(s, n) ==
  [s EXCEPT !.log = Append(@, Ev(IF n \in s.fresh THEN "rerun" ELSE "run", n)),
            !.deps[n] = {}, !.ran = @ \cup {n},
            !.stale = @ \ {n}, !.fresh = @ \ {n}]

\* A computed that stores and notifies without comparing.
storeValueAlways(s, n) ==
  notifyObservers([s EXCEPT !.value[n] = s.ret,
                            !.fresh = @ \ (Above(s, {n}, MaxNodes) \ {n})], n)

\* if (isDirty(currentValue, nextValue)) { currentValue = nextValue; notify }
storeValue(s, n) ==
  IF notEqual(s.value[n], s.ret)
  THEN notifyObservers([s EXCEPT !.value[n] = s.ret,
                                 !.fresh = @ \ (Above(s, {n}, MaxNodes) \ {n})], n)
  ELSE s

\* init = true; $computed[DIRTY] = false; return currentValue
settle(s, n) ==
  [s EXCEPT !.init[n] = TRUE, !.DIRTY[n] = FALSE, !.ret = s.value[n],
            !.fresh = IF s.DISPOSED[n] THEN @ ELSE @ \cup {n}]

\* A catch block that returns currentValue whatever init is.
caughtStored(s, n) ==
  IF s.exc # "none" THEN s
  ELSE [s EXCEPT !.ret = s.value[n]]

\* return !init ? options?.fallback : currentValue
caught(s, n) ==
  IF s.exc # "none" THEN s
  ELSE [s EXCEPT !.ret = IF ~s.init[n] THEN fallback(Tmpl[s.tmpl[n]]) ELSE s.value[n]]

\* What follows compute() in the try block, or the catch block.
recomputeEnd(s, n) ==
  IF s.exc = "overflow" THEN s
  ELSE IF s.exc = "none" THEN settle(storeValue(s, n), n)
       ELSE caught(handleError([s EXCEPT !.exc = "none",
                                         !.log = Append(@, Ev("caught", n))], n, s.exc), n)

\* The body of `if ($computed[DIRTY] && !$computed[DISPOSED])'.
recompute(s, n) ==
  IF Len(s.log) >= MaxLog THEN [s EXCEPT !.exc = "overflow"]
  ELSE recomputeEnd(
         compute(beginRun(clearHandlers(clearDisposal(clearChildren(s, n), n), n), n),
                 n, n, n),
         n)

\* The read of a derivation without the test of the disposed flag.
computedRunAnyway(s, n) ==
  IF s.DIRTY[n] THEN recompute(s, n)
  ELSE [s EXCEPT !.ret = s.value[n]]

\* if ($computed[DIRTY] && !$computed[DISPOSED]) { .. } return currentValue
computedRun(s, n) ==
  IF s.DIRTY[n] /\ ~s.DISPOSED[n] THEN recompute(s, n)
  ELSE [s EXCEPT !.ret = s.value[n]]

\* History: a read of n that goes on while n's own body is executing.
reentry(s, n) ==
  IF n \in Range(s.active) THEN [s EXCEPT !.log = Append(@, Ev("reenter", n))] ELSE s

computedRead(s, n) ==
  IF n \in Range(s.computeStack) THEN [s EXCEPT !.exc = "cycle"]
  ELSE computedRun(track(reentry(s, n), n), n)

read(s, n) ==
  IF s.kind[n] = "observable" THEN observableRead(s, n) ELSE computedRead(s, n)

\* The function scope(fn) returns: try { return compute(fn[SCOPE], fn,
\* currentObserver) } catch (error) { handleError(fn, error) } return
scopedCatch(s, n) ==
  IF s.exc \in {"none", "overflow"} THEN s
  ELSE [handleError([s EXCEPT !.exc = "none"], n, s.exc) EXCEPT !.ret = UNDEF]

scoped(s, n) == scopedCatch(compute(s, s.SCOPE[n], n, s.currentObserver), n)

\* The fields observable(), computed(), root() and scope() give the new object s.next.
createNode(s, t) ==
  [s EXCEPT !.next = s.next + 1,
            !.kind[s.next] = IF Tmpl[t].kind = "effect" THEN "computed" ELSE Tmpl[t].kind,
            !.tmpl[s.next] = t,
            !.value[s.next] = IF Tmpl[t].kind = "observable" THEN Tmpl[t].v0 ELSE UNDEF,
            !.SCOPE[s.next] = s.currentScope,
            !.DIRTY[s.next] = (Tmpl[t].kind \in {"computed", "effect"}),
            !.owner[s.next] = s.trueScope,
            !.madeIn[s.next] = s.mode,
            !.log = Append(@, Ev("new", s.next))]

\* if (currentScope) adopt(node)
createAdopt(s, n, k) ==
  IF s.currentScope # Null /\ k # "root" THEN adopt(s, n) ELSE s

\* effect() invokes the new derivation once; root() runs init under the new scope.
createRun(s, n, k) ==
  CASE k = "effect" -> [computedRead(s, n) EXCEPT !.ret = UNDEF]
    [] k = "root" -> compute(s, n, n, Null)
    [] OTHER -> s

\* observable(v0), computed(fn), effect(fn) and root(init) allocate object s.next.
create(s, t) ==
  IF s.next > MaxNodes THEN [s EXCEPT !.exc = "overflow"]
  ELSE createRun(createAdopt(createNode(s, t), s.next, Tmpl[t].kind), s.next, Tmpl[t].kind)

\* flag() ? a() : b(), after the read of the flag.
branch(s, i) ==
  IF s.exc # "none" THEN s
  ELSE IF s.ret # 0 THEN read(s, i.b) ELSE read(s, i.c)

\* if (n()) { body }, after the read.
ifBody(s, i, me) ==
  IF s.exc # "none" \/ s.ret = 0 THEN s ELSE ExecSeq(s, i.b, 0, me)

\* if (a()) throw ..., after the read.
throwIf(s) ==
  IF s.exc = "none" /\ s.ret # 0 THEN [s EXCEPT !.exc = "error"]
  ELSE [s EXCEPT !.ret = 0]

\* peek(): const prev = currentObserver; currentObserver = null
peekEnter(s) ==
  [s EXCEPT !.currentObserver = Null, !.trueObserver = Null,
            !.mode = IF @ = "untrack" THEN @ ELSE "peek"]

\* peek(): currentObserver = prev, which a throw of the function skips.
\* History: an `unrestored' event when the slot is left changed.
peekLeave(s, r) ==
  IF r.exc # "none"
  THEN [r EXCEPT !.trueObserver = s.trueObserver, !.mode = s.mode,
                 !.log = IF r.currentObserver # s.currentObserver
                         THEN Append(@, Ev("unrestored", s.currentObserver)) ELSE @]
  ELSE [r EXCEPT !.currentObserver = s.currentObserver,
                 !.trueObserver = s.trueObserver, !.mode = s.mode]

peek(s, body, me) == peekLeave(s, ExecSeq(peekEnter(s), body, 0, me))

\* untrack(): const prev = currentScope; currentScope = null
untrackEnter(s) ==
  [s EXCEPT !.currentScope = Null, !.trueScope = Null, !.mode = "untrack"]

\* untrack(): currentScope = prev, which a throw of the function skips.
untrackLeave(s, r) ==
  IF r.exc # "none"
  THEN [r EXCEPT !.trueScope = s.trueScope, !.mode = s.mode,
                 !.log = IF r.currentScope # s.currentScope
                         THEN Append(@, Ev("unrestored", s.currentScope)) ELSE @]
  ELSE [r EXCEPT !.currentScope = s.currentScope,
                 !.trueScope = s.trueScope, !.mode = s.mode]

untrack(s, body, me) == untrackLeave(s, peek(untrackEnter(s), body, me))

\* try { body } catch {}, after the body.
tryCatch(s) ==
  IF s.exc \in {"error", "cycle"} THEN [s EXCEPT !.exc = "none", !.ret = 0] ELSE s

Exec(s, i, me) ==
  CASE i.op = "R" -> read(s, i.a)
    [] i.op = "RIf" -> branch(read(s, i.a), i)
    [] i.op = "W" -> [observableSet(s, i.a, i.b) EXCEPT !.ret = 0]
    [] i.op = "New" -> [create(s, i.a) EXCEPT !.ret = 0]
    [] i.op = "OnD" -> [onDispose(s, i.a) EXCEPT !.ret = 0]
    [] i.op = "Disp" -> [dispose(s, IF i.a = Null THEN me ELSE i.a) EXCEPT !.ret = 0]
    [] i.op = "ThrowIf" -> throwIf(read(s, i.a))
    [] i.op = "Peek" -> peek(s, i.a, me)
    [] i.op = "Untrack" -> untrack(s, i.a, me)
    [] i.op = "Call" -> scoped(s, i.a)
    [] i.op = "If" -> ifBody(read(s, i.a), i, me)
    [] i.op = "Throw" -> [s EXCEPT !.exc = "error"]
    [] i.op = "OnErr" -> [onError(s, i.a) EXCEPT !.ret = 0]
    [] i.op = "SetCtx" -> [setContext(s, i.a) EXCEPT !.ret = 0]
    [] i.op = "GetCtx" -> getContext(s)
    [] i.op = "Try" -> tryCatch(ExecSeq(s, i.a, 0, me))
    [] i.op = "OnDKeep" -> [onDisposeKeep(s, i.a) EXCEPT !.ret = 0]

ExecNext(s, prog, acc, me) == ExecSeq(s, Tail(prog), acc + s.ret, me)

ExecSeq(s, prog, acc, me) ==
  IF s.exc # "none" THEN s
  ELSE IF prog = <<>> THEN [s EXCEPT !.ret = acc]
       ELSE ExecNext(Exec(s, Head(prog), me), prog, acc, me)

\* A flush that serves the first pending node and stops.
flushFirst(s) ==
  IF s.exc # "none" \/ s.queue = <<>> THEN s
  ELSE read([s EXCEPT !.queue = Tail(@)], Head(s.queue))

\* scheduler.flush(): dequeue the next pending node and invoke it as a read.
flushLoop(s) ==
  IF s.exc # "none" \/ s.queue = <<>> THEN s
  ELSE flushLoop(read([s EXCEPT !.queue = Tail(@)], Head(s.queue)))

tick(s) == flushLoop(s)

-----------------------------------------------------------------------------
(* The state machine: one action per API call made at top level.           *)

Alloc == 1..(next - 1)

Commit(r, op) ==
  /\ r.exc # "overflow"
  /\ kind' = r.kind /\ tmpl' = r.tmpl /\ value' = r.value /\ init' = r.init
  /\ SCOPE' = r.SCOPE /\ DIRTY' = r.DIRTY /\ DISPOSED' = r.DISPOSED
  /\ CHILDREN' = r.CHILDREN /\ OBSERVERS' = r.OBSERVERS /\ DISPOSAL' = r.DISPOSAL
  /\ errDef' = r.errDef /\ errH' = r.errH
  /\ currentScope' = r.currentScope /\ currentObserver' = r.currentObserver
  /\ prevScope' = r.prevScope /\ prevObserver' = r.prevObserver
  /\ computeStack' = r.computeStack /\ queue' = r.queue /\ next' = r.next
  /\ exc' = r.exc /\ ret' = r.ret
  /\ lastOp' = op
  /\ log' = r.log /\ restored' = r.restored /\ deps' = r.deps /\ owner' = r.owner
  /\ stale' = r.stale /\ fresh' = r.fresh
  /\ heldAt' = r.heldAt /\ midRun' = r.midRun /\ madeIn' = r.madeIn
  /\ ran' = r.ran
  /\ ctx' = r.ctx
  /\ handles' = r.handles
  /\ UNCHANGED sc

Op(o, n, v) == [op |-> o, n |-> n, v |-> v]

Init ==
  /\ sc \in 1..NSc
  /\ pc = 1
  /\ kind = [n \in Nodes |-> "none"]
  /\ tmpl = [n \in Nodes |-> 0]
  /\ value = [n \in Nodes |-> UNDEF]
  /\ init = [n \in Nodes |-> FALSE]
  /\ SCOPE = [n \in Nodes |-> Null]
  /\ DIRTY = [n \in Nodes |-> FALSE]
  /\ DISPOSED = [n \in Nodes |-> FALSE]
  /\ CHILDREN = [n \in Nodes |-> <<>>]
  /\ OBSERVERS = [n \in Nodes |-> <<>>]
  /\ DISPOSAL = [n \in Nodes |-> <<>>]
  /\ errDef = [n \in Nodes |-> FALSE]
  /\ errH = [n \in Nodes |-> <<>>]
  /\ currentScope = Null /\ currentObserver = Null
  /\ prevScope = Null /\ prevObserver = Null
  /\ computeStack = <<>>
  /\ queue = <<>>
  /\ next = 1
  /\ exc = "none" /\ ret = UNDEF
  /\ lastOp = Op("init", 0, 0)
  /\ log = <<>> /\ restored = TRUE
  /\ deps = [n \in Nodes |-> {}]
  /\ owner = [n \in Nodes |-> Null]
  /\ stale = {} /\ fresh = {}
  /\ heldAt = [n \in Nodes |-> UNDEF] /\ midRun = {}
  /\ madeIn = [n \in Nodes |-> "track"]
  /\ ran = {}
  /\ ctx = [n \in Nodes |-> UNDEF]
  /\ handles = {}

\* The program's next top-level statement.
Setup ==
  /\ pc <= Len(Main[sc])
  /\ pc' = pc + 1
  /\ Commit(Exec(S, Main[sc][pc], Null), Op("main", pc, 0))

Ready == pc > Len(Main[sc])

\* n() at top level; effect() hands out no function to read.
Read(n) ==
  /\ Ready /\ n \in Readable[sc] /\ Tmpl[tmpl[n]].kind \in {"observable", "computed"}
  /\ Commit(read(S, n), Op("read", n, 0))
  /\ UNCHANGED pc

\* n.set(v) at top level.
Set(n, v) ==
  /\ Ready /\ kind[n] = "observable"
  /\ Commit(observableSet(S, n, v), Op("set", n, v))
  /\ UNCHANGED pc

\* dispose(n), or the stop function of effect n, at top level.
Dispose(n) ==
  /\ Ready /\ n \in Disposable[sc] /\ kind[n] # "none"
  /\ Commit(dispose(S, n), Op("dispose", n, 0))
  /\ UNCHANGED pc

\* dispose(n, true), or stop(true) of effect n, at top level: dispose has
\* one parameter, a second argument is dropped by the call.
DisposeDeep(n) ==
  /\ Ready /\ n \in DeepDisposable[sc] /\ kind[n] # "none"
  /\ Commit(dispose(S, n), Op("disposeDeep", n, 0))
  /\ UNCHANGED pc

\* tick(), or the microtask the scheduler asked the host for.
Tick ==
  /\ Ready
  /\ Commit(tick(S), Op("tick", 0, 0))
  /\ UNCHANGED pc

\* early() at top level, early a function onDispose returned.
InvokeHandle(h) ==
  /\ Ready /\ h \in handles
  /\ Commit(invokeHandle(S, h), Op("handle", h.scope, h.cb))
  /\ UNCHANGED pc

Next ==
  \/ Setup
  \/ \E n \in Alloc : Read(n)
  \/ \E n \in Alloc, v \in Vals : Set(n, v)
  \/ \E n \in Alloc : Dispose(n)
  \/ Tick
  \/ \E h \in handles : InvokeHandle(h)
  \/ \E n \in Alloc : DisposeDeep(n)

Spec == Init /\ [][Next]_vars

-----------------------------------------------------------------------------
(* Vocabulary of the properties.                                           *)

\* The objects the last call marked dirty, and how often it ran n's body.
Marked(l) == {l[i].n : i \in {j \in 1..Len(l) : l[j].e = "mark"}}
Runs(l, n) == Cardinality({i \in 1..Len(l) : l[i].e \in {"run", "rerun"} /\ l[i].n = n})
Changed(l) == \E i \in 1..Len(l) : l[i].e = "write"

\* The sources and derivations n's latest run read, directly or through
\* the derivations it read.
RECURSIVE Below(_, _)
Below(ns, k) ==
  LET down == ns \cup UNION {deps[d] : d \in ns}
  IN  IF k = 0 \/ down = ns THEN ns ELSE Below(down, k - 1)

\* The value n's function yields from the values val the objects hold,
\* the objects in `gone' being disposed.
RECURSIVE Current(_, _, _, _), CurrentSum(_, _, _, _)
Current(val, gone, n, k) ==
  IF kind[n] # "computed" \/ n \in gone \/ k = 0 THEN val[n]
  ELSE CurrentSum(val, gone, Tmpl[tmpl[n]].body, k - 1)

CurrentSum(val, gone, prog, k) ==
  IF prog = <<>> THEN 0
  ELSE (CASE Head(prog).op = "R" -> Current(val, gone, Head(prog).a, k)
          [] Head(prog).op = "RIf" ->
               IF Current(val, gone, Head(prog).a, k) # 0
               THEN Current(val, gone, Head(prog).b, k)
               ELSE Current(val, gone, Head(prog).c, k)
          [] OTHER -> 0)
       + CurrentSum(val, gone, Tail(prog), k)

\* The scopes above n by creation: the run that created n, the run that
\* created that one, and so on.
RECURSIVE Ancestors(_, _)
Ancestors(n, k) ==
  IF k = 0 \/ owner[n] = Null THEN {}
  ELSE {owner[n]} \cup Ancestors(owner[n], k - 1)

-----------------------------------------------------------------------------
(* The properties.                                                         *)

\* C1: every tracked execution started by compute leaves the current scope
\* and the current observer as they were immediately before it started, at
\* every depth of nesting.  (`restored' turns false when some compute of a
\* call returned with a slot that differs from its value at entry.)
C1_SlotsRestored == restored

\* C2: once a flush has completed, no live derivation still owes a run to a
\* changing write to a source its most recent run read.
C2_ReadersRerun ==
  (lastOp.op = "tick" /\ exc = "none") => stale = {}

\* C3: a write to a source marks dirty (and so enqueues) only derivations
\* whose most recent run read that source, directly or through derivations.
C3_OnlyReadersMarked ==
  lastOp.op = "set" =>
    \A d \in Marked(log) : lastOp.n \in Below({d}, MaxNodes)

\* C4: a read of a live derivation that directly follows a changing write to
\* a source below it returns what its function yields from the new values.
C4_PullOnRead ==
  [][(/\ lastOp.op = "set" /\ Changed(log)
      /\ lastOp'.op = "read" /\ kind[lastOp'.n] = "computed"
      /\ ~DISPOSED[lastOp'.n] /\ init[lastOp'.n]
      /\ lastOp.n \in Below({lastOp'.n}, MaxNodes)
      /\ exc' = "none")
     => ret' = Current(value', {n \in Nodes : DISPOSED'[n]}, lastOp'.n, MaxNodes)]_vars

\* C5: no body runs while the derivation holds a value computed after the
\* last change of anything its run read, directly or through derivations
\* (such a run is logged as "rerun").
C5_Memoised ==
  \A i \in 1..Len(log) : log[i].e # "rerun"

\* C6: the writes run no body, and the flush that follows a write runs the
\* body of each observer that write marked exactly once.
C6_OneRunPerFlush ==
  [][/\ (lastOp'.op = "set" => \A n \in Nodes : Runs(log', n) = 0)
     /\ (lastOp.op = "set" /\ lastOp'.op = "tick" /\ exc' = "none") =>
          \A d \in Marked(log) : ~DISPOSED'[d] => Runs(log', d) = 1]_vars

\* C7: after dispose(X) at top level has returned, every object created
\* under X's tracked execution, transitively, is disposed.
C7_DescendantsDisposed ==
  \A n \in Alloc :
    (\E x \in Ancestors(n, MaxNodes) : DISPOSED[x] /\ x \notin midRun) => DISPOSED[n]

C9_DisposedSetNoOp ==
  [][(lastOp'.op = "set" /\ DISPOSED[lastOp'.n])
     => (/\ value' = value /\ DIRTY' = DIRTY /\ queue' = queue
         /\ OBSERVERS' = OBSERVERS
         /\ log' = <<>> /\ exc' = "none")]_vars

\* A disposed source that a derivation had read was written with a value
\* other than the one it holds.
C9_Witness ==
  /\ lastOp.op = "set" /\ DISPOSED[lastOp.n]
  /\ lastOp.v # value[lastOp.n]
  /\ \E d \in Alloc : kind[d] = "computed" /\ init[d] /\ lastOp.n \in deps[d]

\* C10: the observers, children and disposal callbacks of a disposed object
\* are empty.
C10_DisposedSetsEmpty ==
  \A n \in Alloc :
    DISPOSED[n] => (OBSERVERS[n] = <<>> /\ CHILDREN[n] = <<>> /\ DISPOSAL[n] = <<>>)

\* C11: a read inside peek(fn) or untrack(fn) adds no observer link; an
\* object created inside peek(fn) has the enclosing scope as its scope
\* parent and is among that scope's children; an object created inside
\* untrack(fn) has no scope parent.
C11_PeekUntrack ==
  /\ \A i \in 1..Len(log) : log[i].e # "peeklink"
  /\ \A n \in Alloc :
       (~DISPOSED[n] /\ kind[n] # "root") =>
         /\ (madeIn[n] = "peek" /\ owner[n] # Null) =>
              (SCOPE[n] = owner[n] /\ n \in Range(CHILDREN[owner[n]]))
         /\ madeIn[n] = "untrack" => SCOPE[n] = Null

\* C12: a live effect whose latest run completed and returned a cleanup
\* function holds that function in its disposal set, so that the next
\* re-run and the stop each call it once.
C12_CleanupRegistered ==
  \A n \in Alloc :
    (/\ Tmpl[tmpl[n]].kind = "effect" /\ Tmpl[tmpl[n]].cleanup # 0
     /\ ~DISPOSED[n] /\ init[n] /\ ~DIRTY[n])
    => Tmpl[tmpl[n]].cleanup \in Range(DISPOSAL[n])

\* C13: every live source, derivation and effect created while a tracked
\* execution of scope X was running, and not inside untrack, has X as its
\* scope parent and is among X's children.
C13_CreatedUnderScope ==
  \A n \in Alloc :
    (~DISPOSED[n] /\ kind[n] \in {"observable", "computed"}
     /\ owner[n] # Null /\ madeIn[n] # "untrack")
    => (SCOPE[n] = owner[n] /\ n \in Range(CHILDREN[owner[n]]))

\* C14: a read of a derivation never goes on while the body of that
\* derivation is executing: it fails with the cycle error instead.
C14_CycleDetected ==
  \A i \in 1..Len(log) : log[i].e # "reenter"

\* C15: the cycle error is never handed to a handler registered with onError.
C15_CycleNotHandled ==
  \A i \in 1..Len(log) : log[i].e # "cyclehandler"

\* C16: for one error a derivation throws, no handler is invoked more than once.
C16_HandlerOnce ==
  \A i, j \in 1..Len(log) :
    (/\ i < j
     /\ log[i].e \in {"handler", "cyclehandler"}
     /\ log[j] = log[i])
    => \E k \in (i + 1)..(j - 1) : log[k].e = "caught"

\* A top-level read of n whose run threw, the error being handled.
HandledThrow(l, e, op) ==
  /\ op.op = "read"
  /\ e = "none"
  /\ \E i \in 1..Len(l) : l[i] = Ev("caught", op.n)

\* What C17 says of the failed run apart from the value returned: the stored
\* value is kept and no observer of the derivation is marked.
FailedRunSilent(n) ==
  /\ value'[n] = value[n]
  /\ \A m \in Range(OBSERVERS'[n]) : m \notin Marked(log')

\* C17, as stated: a read whose run throws a handled error returns the
\* fallback if the run is the derivation's first, else the stored value.
C17_FallbackOnFirstRun ==
  [][HandledThrow(log', exc', lastOp') =>
       /\ ret' = IF lastOp'.n \notin ran THEN fallback(Tmpl[tmpl[lastOp'.n]])
                                       ELSE value[lastOp'.n]
       /\ FailedRunSilent(lastOp'.n)]_vars

\* C17, amended: such a read returns the fallback as long as no run of the
\* derivation has completed, else the stored value; the failed run stores
\* nothing and marks no observer.
C17_FallbackUntilInit ==
  [][HandledThrow(log', exc', lastOp') =>
       /\ ret' = IF ~init[lastOp'.n] THEN fallback(Tmpl[tmpl[lastOp'.n]])
                                     ELSE value[lastOp'.n]
       /\ FailedRunSilent(lastOp'.n)]_vars

C17_Witness ==
  /\ HandledThrow(log, exc, lastOp)
  /\ fallback(Tmpl[tmpl[lastOp.n]]) # UNDEF
  /\ ~init[lastOp.n]
  /\ ret = fallback(Tmpl[tmpl[lastOp.n]])

\* C18: getContext(key), called while the body of scope X executes, returns
\* the value of the nearest scope among X and its scope parents that defines
\* the key, or undefined when none does.
C18_ContextFromScope ==
  \A i \in 1..Len(log) : log[i].e # "ctxmiss"

\* Callback cb is in no disposal Set.
Unregistered(cb) == \A m \in Nodes : cb \notin Range(DISPOSAL[m])

\* The callbacks a call ran before it started any body.
RanFirst(l) ==
  {l[i].n : i \in {j \in 1..Len(l) :
                     /\ l[j].e = "cb"
                     /\ \A k \in 1..(j - 1) : l[k].e \notin {"run", "rerun"}}}

\* C19: invoking the function onDispose(fn) returned runs fn, once and at
\* once, and takes fn out of the disposal Set of the scope it was registered
\* on, wherever it is invoked from; a callback that is in no disposal Set is
\* run by no disposal and by no re-run that follows.
C19_HandleRunsOnce ==
  [][/\ lastOp'.op = "handle" =>
          /\ SelectSeq(log', LAMBDA ev : ev.e = "cb") = <<Ev("cb", lastOp'.v)>>
          /\ lastOp'.n # Null => lastOp'.v \notin Range(DISPOSAL'[lastOp'.n])
          /\ \A m \in Nodes \ {lastOp'.n} : DISPOSAL'[m] = DISPOSAL[m]
     /\ lastOp'.op \in {"dispose", "tick", "set", "read"} =>
          \A cb \in RanFirst(log') : ~Unregistered(cb)]_vars

\* A kept function is invoked while its callback is registered: the
\* callback ran and is no longer in the Set of the scope.
C19_Witness ==
  /\ lastOp.op = "handle"
  /\ log = <<Ev("cb", lastOp.v), Ev("deleted", lastOp.n)>>
  /\ ~DISPOSED[lastOp.n]
  /\ lastOp.v \notin Range(DISPOSAL[lastOp.n])

\* C20: dispose of an object that is already disposed runs no callback,
\* disposes nothing and leaves every flag, Set and value as it was.
C20_DisposeTwiceNoOp ==
  [][(lastOp'.op = "dispose" /\ DISPOSED[lastOp'.n]) =>
       /\ \A i \in 1..Len(log') : log'[i].e # "cb"
       /\ <<value, init, SCOPE, DIRTY, DISPOSED, CHILDREN, OBSERVERS, DISPOSAL,
            errDef, errH, ctx, queue>>' =
          <<value, init, SCOPE, DIRTY, DISPOSED, CHILDREN, OBSERVERS, DISPOSAL,
            errDef, errH, ctx, queue>>]_vars

\* Node n has a run in l after position i.
RunsAfter(l, i, n) ==
  \E j \in (i + 1)..Len(l) : l[j] \in {Ev("run", n), Ev("rerun", n)}

\* C21: when tick() returns, the pending set is empty; a node that was
\* pending and dirty before the flush, or was marked and enqueued during the
\* flush, has been run by the flush, unless it is disposed or clean by then.
C21_TickDrains ==
  [][(lastOp'.op = "tick" /\ exc' = "none") =>
       /\ queue' = <<>>
       /\ \A n \in Range(queue) :
            (DIRTY[n] /\ ~DISPOSED[n]) => (RunsAfter(log', 0, n) \/ DISPOSED'[n])
       /\ \A i \in 1..Len(log') :
            log'[i].e = "mark" =>
              \/ RunsAfter(log', i, log'[i].n)
              \/ DISPOSED'[log'[i].n]
              \/ ~DIRTY'[log'[i].n]]_vars

\* A flush has returned in which a node was enqueued by a recomputation and
\* then run.
C21_Witness ==
  /\ lastOp.op = "tick" /\ exc = "none" /\ queue = <<>>
  /\ \E i \in 1..Len(log) :
       /\ log[i].e = "mark"
       /\ RunsAfter(log, i, log[i].n)
       /\ \E j \in 1..(i - 1) : log[j].e \in {"run", "rerun"}

\* A computed whose function only reads and writes nodes and returns the sum
\* of what it read.
ReadsAndWrites(t) ==
  /\ t.kind = "computed"
  /\ \A i \in 1..Len(t.body) : t.body[i].op \in {"R", "RIf", "W"}

\* C22: a live derivation that has run and is not dirty holds what its
\* function yields from the values now stored in the nodes it read.
C22_CleanIsCurrent ==
  \A n \in Alloc :
    (/\ kind[n] = "computed" /\ ReadsAndWrites(Tmpl[tmpl[n]])
     /\ ~DISPOSED[n] /\ init[n] /\ ~DIRTY[n])
    => value[n] = Current(value, {}, n, 1)

\* The derivations the last read ran.
Ran(l) == {l[i].n : i \in {j \in 1..Len(l) : l[j].e \in {"run", "rerun"}}}

\* C23: a write turns no dirty flag off and touches the flag of no derivation
\* outside the observers of the written source; a read of a source changes
\* no flag; a read of a derivation changes only its own flag, the flags of
\* the derivations it recomputes and the flags of their observers.
C23_DirtyFrame ==
  [][/\ lastOp'.op = "set" =>
          \A d \in Alloc :
            /\ DIRTY[d] => DIRTY'[d]
            /\ d \notin Range(OBSERVERS[lastOp'.n]) => DIRTY'[d] = DIRTY[d]
     /\ (lastOp'.op = "read" /\ kind[lastOp'.n] = "observable") =>
          DIRTY' = DIRTY
     /\ (lastOp'.op = "read" /\ kind[lastOp'.n] = "computed") =>
          \A d \in Alloc :
            DIRTY'[d] # DIRTY[d] =>
              \/ d = lastOp'.n
              \/ d \in Ran(log')
              \/ \E r \in Ran(log') : d \in Range(OBSERVERS[r]) \cup Range(OBSERVERS'[r])]_vars

\* A changing write has marked an observer of the source and has left a
\* clean derivation that is not an observer clean.
C23_Witness ==
  /\ lastOp.op = "set" /\ Marked(log) # {}
  /\ \E d \in Alloc :
       /\ kind[d] = "computed" /\ ~DISPOSED[d] /\ init[d] /\ ~DIRTY[d]
       /\ d \notin Range(OBSERVERS[lastOp.n])

\* C24: a write of a value that is not different stores nothing, marks and
\* enqueues nothing; a call in which nothing was written and every
\* derivation that ran kept its value marks and enqueues no observer, and
\* runs no derivation that was clean.
C24_NoChangeNoNotify ==
  [][/\ (lastOp'.op = "set" /\ ~notEqual(value[lastOp'.n], lastOp'.v)) =>
          /\ log' = <<>>
          /\ <<value, DIRTY, queue>>' = <<value, DIRTY, queue>>
     /\ (/\ lastOp'.op \in {"read", "tick"}
         /\ \A i \in 1..Len(log') : log'[i].e # "write"
         /\ \A n \in Ran(log') \cap Alloc : value'[n] = value[n]) =>
          /\ Marked(log') \cap Alloc = {}
          /\ \A n \in Alloc : n \notin Range(queue) => n \notin Range(queue')
          /\ \A e \in Alloc : ~DIRTY[e] => Runs(log', e) = 0]_vars

\* A flush re-ran a derivation that has a live, clean observer and marked
\* nothing: the observer did not run.
C24_Witness ==
  /\ lastOp.op = "tick" /\ exc = "none"
  /\ Marked(log) = {}
  /\ \E n \in Ran(log) : \E o \in Range(OBSERVERS[n]) :
       /\ value[n] # UNDEF
       /\ o # n /\ ~DISPOSED[o] /\ init[o] /\ ~DIRTY[o]
       /\ o \notin Ran(log)

\* C25: when a derivation runs again, every node an earlier run of it
\* created is disposed before the new body starts, and after the call its
\* children are nodes the call created.
C25_RerunCleansUp ==
  [][\A i \in 1..Len(log') :
       (log'[i].e \in {"run", "rerun"} /\ log'[i].n \in Alloc) =>
         /\ \A c \in Alloc :
              (/\ owner[c] = log'[i].n
               /\ madeIn[c] # "untrack" /\ kind[c] # "root") =>
                \/ DISPOSED[c]
                \/ \E j \in 1..(i - 1) : log'[j] = Ev("disposed", c)
         /\ Range(CHILDREN'[log'[i].n]) \cap Alloc = {}]_vars

\* C26: after dispose(X, true), a write to a source X read, directly or
\* through derivations, does not change the value the source returns, and a
\* derivation X read returns after the write the value it held before.
C26_DeepDisposes ==
  [][(/\ lastOp.op = "disposeDeep"
      /\ lastOp'.op = "set"
      /\ lastOp'.n \in Below({lastOp.n}, MaxNodes))
     => /\ value'[lastOp'.n] = value[lastOp'.n]
        /\ \A d \in Below({lastOp.n}, MaxNodes) :
             kind[d] = "computed" => (~DIRTY'[d] /\ value'[d] = value[d])]_vars

\* C27: after a changing write to source S, the observers Set of S holds no
\* disposed node, no disposed node was marked or enqueued by the write, and
\* every live observer S had was marked and enqueued.
C27_NotifyPrunes ==
  [][(lastOp'.op = "set" /\ Changed(log')) =>
       /\ \A o \in Range(OBSERVERS'[lastOp'.n]) : ~DISPOSED'[o]
       /\ \A m \in Marked(log') : ~DISPOSED[m]
       /\ \A m \in Nodes : (DISPOSED[m] /\ m \notin Range(queue)) => m \notin Range(queue')
       /\ \A o \in Range(OBSERVERS[lastOp'.n]) :
            ~DISPOSED[o] => /\ o \in Marked(log')
                            /\ DIRTY'[o]
                            /\ o \in Range(queue')
                            /\ o \in Range(OBSERVERS'[lastOp'.n])]_vars

\* A changing write has dropped a disposed observer from the Set of the
\* source and has marked a live one.
C27_Witness ==
  /\ lastOp.op = "set" /\ Changed(log) /\ Marked(log) # {}
  /\ \E d \in Alloc :
       /\ DISPOSED[d] /\ lastOp.n \in deps[d]
       /\ d \notin Range(OBSERVERS[lastOp.n])
       /\ \E o \in Marked(log) : o # d /\ o \in Range(OBSERVERS[lastOp.n])

\* C28: when peek(fn) or untrack(fn) finishes, by return or by throw, the
\* current observer, and for untrack the current scope, is what it was
\* before the call.
C28_PeekRestores ==
  \A i \in 1..Len(log) : log[i].e # "unrestored"

\* C29: every compute leaves the compute stack as it found it, so between
\* calls the stack is empty and during a call it holds the scopes whose
\* execution is in progress.
C29_StackBalanced ==
  /\ computeStack = <<>>
  /\ \A i \in 1..Len(log) : log[i].e # "unbalanced"

=============================================================================
